---------------------------- MODULE Spec2Model ----------------------------
(***************************************************************************)
(* A model of src/App.tsx: the grid indexer (coordToGridId,                *)
(* gridIdToCorners), the visit aggregator (gridCounts) and the session     *)
(* recorder (startTracking, stopTracking, loadSavedSessions).              *)
(*                                                                         *)
(* Numbers.  The source computes in IEEE doubles.  The model computes in   *)
(* fixed point on 32-bit integers:                                         *)
(*   - a latitude or longitude is an integer number of micro-degrees       *)
(*     (DegScale units per degree);                                        *)
(*   - a length in metres is an integer number of centimetres (MeterScale  *)
(*     units per metre);                                                   *)
(*   - metres-per-degree is an integer number of millimetres per degree    *)
(*     (MpdScale units per metre);                                         *)
(*   - a dimensionless real (an angle in radians, a cosine) is an integer  *)
(*     multiple of 1/One.                                                  *)
(* Products are computed exactly (MulDivFloor) and rounded toward minus    *)
(* infinity, so that Math.floor of a quotient of a product is the floor of *)
(* the real value.                                                         *)
(***************************************************************************)
EXTENDS Integers, Sequences, FiniteSets, TLC

\* A value that may be null is a sequence of at most one element: null is
\* the empty sequence, the value v is <<v>>.
Null == <<>>
Some(v) == <<v>>

(***************************************************************************)
(* Fixed-point arithmetic                                                  *)
(***************************************************************************)
DegScale == 1000000
MeterScale == 100
MpdScale == 1000
One == 100000000

\* The largest radix B >= 2 with B * c <= 2^30: the digits of the multiplier
\* that one step of MulDivRem takes in without overflow.
Radix(c) == IF 1073741824 \div c < 2 THEN 2 ELSE 1073741824 \div c

\* <<floor(r * b / c), (r * b) % c>> for 0 <= r < c < 2^30 and b >= 0, by
\* long multiplication over the digits of b in radix Radix(c): no
\* intermediate value leaves the 32-bit range.
RECURSIVE MulDivRem(_, _, _)
MulDivRem(r, b, c) ==
    IF b = 0 THEN <<0, 0>>
    ELSE LET B  == Radix(c)
             h  == MulDivRem(r, b \div B, c)
             t1 == B * h[2]
             t2 == (t1 % c) + (b % B) * r
         IN  <<B * h[1] + (t1 \div c) + (t2 \div c), t2 % c>>

\* floor(a * b / c) for b >= 0 and 0 < c < 2^30, without forming a * b.
MulDivFloor(a, b, c) == (a \div c) * b + MulDivRem(a % c, b, c)[1]

\* ceiling(a * b / c), same conditions.
MulDivCeil(a, b, c) == -MulDivFloor(-a, b, c)

\* floor(a * b / One) by long multiplication in radix Limb (One = Limb^2),
\* for b >= 0 with (a \div Limb) * Limb + Limb * (b \div Limb) < 2^31.
Limb == 10000
FixMul(a, b) ==
    LET a1 == a \div Limb
        a0 == a % Limb
        b1 == b \div Limb
        b0 == b % Limb
    IN  a1 * b1 + ((a1 * b0 + a0 * b1 + ((a0 * b0) \div Limb)) \div Limb)

(***************************************************************************)
(* Program constants (src/App.tsx lines 15-21)                             *)
(***************************************************************************)
GRID_SIZE_METERS == 100
METERS_PER_DEGREE_LAT == 111320
\* Math.PI, in units of 1/One.
PiFixed == 314159265
\* The number of terms of the cosine series the model sums: the series is
\* exact to 1/One on [-pi/2, pi/2] from eight terms on.
CosTerms == 8

Abs(x) == IF x < 0 THEN -x ELSE x

\* (lat * Math.PI) / 180: micro-degrees to radians (units of 1/One).
Radians(lat) == MulDivFloor(lat, PiFixed, 180 * DegScale)

\* 1 - y/2! + y^2/4! - ... in Horner form, y = x^2, from term k on.
RECURSIVE CosSeries(_, _)
CosSeries(y, k) ==
    IF k > CosTerms THEN One
    ELSE One - (FixMul(y, CosSeries(y, k + 1)) \div ((2 * k - 1) * (2 * k)))

\* Math.cos(x), x in radians, |x| <= pi/2.
MathCos(x) == CosSeries(FixMul(Abs(x), Abs(x)), 1)

\* getMetersPerDegreeLon(lat) = 111320 * Math.cos((lat * Math.PI) / 180),
\* in millimetres per degree.
getMetersPerDegreeLon(lat) ==
    FixMul(111320 * MpdScale, MathCos(Radians(lat)))

(***************************************************************************)
(* Strings: a string is a sequence of one-character strings.               *)
(***************************************************************************)
DigitChar == <<"0", "1", "2", "3", "4", "5", "6", "7", "8", "9">>

RECURSIVE NatToString(_)
NatToString(n) ==
    IF n < 10 THEN <<DigitChar[n + 1]>>
    ELSE Append(NatToString(n \div 10), DigitChar[(n % 10) + 1])

\* The string a template literal gives an integer-valued number.
NumberToString(n) == IF n < 0 THEN <<"-">> \o NatToString(-n) ELSE NatToString(n)

DigitValue(ch) == CHOOSE d \in 0..9 : DigitChar[d + 1] = ch

RECURSIVE StringToNat(_)
StringToNat(s) ==
    IF s = <<>> THEN 0
    ELSE 10 * StringToNat(SubSeq(s, 1, Len(s) - 1)) + DigitValue(s[Len(s)])

\* Number(s) for a decimal integer literal with an optional sign.
StringToNumber(s) ==
    IF s # <<>> /\ s[1] = "-" THEN -StringToNat(Tail(s)) ELSE StringToNat(s)

\* s.split('_'): the pieces of s between the underscores.
RECURSIVE SplitUnderscore(_)
SplitUnderscore(s) ==
    IF \A i \in 1..Len(s) : s[i] # "_" THEN <<s>>
    ELSE LET k == CHOOSE i \in 1..Len(s) :
                      s[i] = "_" /\ \A j \in 1..(i - 1) : s[j] # "_"
         IN  <<SubSeq(s, 1, k - 1)>> \o SplitUnderscore(SubSeq(s, k + 1, Len(s)))

(***************************************************************************)
(* Grid indexer (src/App.tsx lines 30-55)                                  *)
(***************************************************************************)
\* Math.floor(x / d) with the mathematical truncation toward zero instead.
TruncDiv(x, d) == IF x < 0 THEN -((-x) \div d) ELSE x \div d

\* Math.floor(x / d) for a fixed-point x and an integer d > 0.
MathFloorDiv(x, d) == x \div d

\* const latMeters = lat * METERS_PER_DEGREE_LAT, in centimetres.
latMeters(lat) == MulDivFloor(lat, METERS_PER_DEGREE_LAT * MeterScale, DegScale)

\* const lonMeters = lon * getMetersPerDegreeLon(lat), in centimetres.
lonMeters(lat, lon) ==
    MulDivFloor(lon, getMetersPerDegreeLon(lat), (DegScale * MpdScale) \div MeterScale)

gi(lat) == MathFloorDiv(latMeters(lat), GRID_SIZE_METERS * MeterScale)

gj(lat, lon) == MathFloorDiv(lonMeters(lat, lon), GRID_SIZE_METERS * MeterScale)

\* The template literal `${gi}_${gj}`.
GridIdString(row, col) == NumberToString(row) \o <<"_">> \o NumberToString(col)

coordToGridId(lat, lon) == GridIdString(gi(lat), gj(lat, lon))

Coord(lat, lon) == [latitude |-> lat, longitude |-> lon]

\* gridIdToCorners(gridId).  A corner is rounded up to the next
\* micro-degree, so that a coordinate of the model lies inside
\* [latMin, latMax) x [lonMin, lonMax) exactly when it lies inside the
\* real-valued bounds.
gridIdToCorners(gridId) ==
    LET parts  == SplitUnderscore(gridId)
        row    == StringToNumber(parts[1])
        col    == StringToNumber(parts[2])
        latMin == MulDivCeil(row * GRID_SIZE_METERS, DegScale, METERS_PER_DEGREE_LAT)
        latMax == MulDivCeil((row + 1) * GRID_SIZE_METERS, DegScale, METERS_PER_DEGREE_LAT)
        latCenter == (latMin + latMax) \div 2
        metersPerDegLon == getMetersPerDegreeLon(latCenter)
        lonMin == MulDivCeil(col * GRID_SIZE_METERS, MpdScale * DegScale, metersPerDegLon)
        lonMax == MulDivCeil((col + 1) * GRID_SIZE_METERS, MpdScale * DegScale, metersPerDegLon)
    IN  << Coord(latMin, lonMin), Coord(latMin, lonMax), Coord(latMax, lonMax),
           Coord(latMax, lonMin), Coord(latMin, lonMin) >>

(***************************************************************************)
(* State                                                                   *)
(***************************************************************************)
VARIABLES
    isRecording,      \* useState(false), line 65
    currentLocation,  \* useState(null), line 66
    locations,        \* useState([]), line 70: the active buffer
    errorMessage,     \* useState(null), line 73
    region,           \* useState(DEFAULT_REGION), line 74
    savedSessions,    \* useState([]), line 75
    subscriptionRef,  \* useRef(null), line 76
    startTimeRef,     \* useRef(null), line 78
    storage,          \* the AsyncStorage item under GPS_SESSIONS_KEY
    now,              \* the value Date.now() returns
    orphans,          \* live location subscriptions no reference points to
    starts,           \* the startTracking calls in flight, by await point
    stops,            \* the stopTracking calls in flight
    loadPc,           \* the loadSavedSessions call of the mount effect
    hist,             \* what the collaborators handed over, what was sealed
    probe             \* the arguments and results of a pure function applied

appVars == <<isRecording, currentLocation, locations, errorMessage, region,
             savedSessions, subscriptionRef, startTimeRef>>
envVars == <<storage, now, orphans, starts, stops, loadPc, hist>>
vars == <<appVars, envVars, probe>>

\* DEFAULT_REGION, lines 8-13, in micro-degrees.
DEFAULT_REGION ==
    [latitude |-> 35681200, longitude |-> 139767100,
     latitudeDelta |-> 10000, longitudeDelta |-> 10000]

\* No startTracking call awaits the permission, the initial fix or the
\* subscription.
NoStarts == [perm |-> 0, fix |-> 0, watch |-> 0]

\* hist records what the code cannot tell afterwards:
\*   fed     the coordinates the location collaborator has handed over to
\*           the recording in progress: the initial fix, then the samples in
\*           arrival order; empty when stopTracking has been called;
\*   sealed  the session objects stopTracking has built (lines 124-129);
\*   last    how the last handler call that left the main line ended: at a
\*           guard, at a rejected await, or in a catch.
NoHist == [fed |-> <<>>, sealed |-> <<>>, last |-> "none"]

\* The component as constructed (lines 65-78), nothing in flight.
Constructed ==
    /\ isRecording = FALSE
    /\ currentLocation = Null
    /\ locations = <<>>
    /\ errorMessage = Null
    /\ region = DEFAULT_REGION
    /\ savedSessions = <<>>
    /\ subscriptionRef = Null
    /\ startTimeRef = Null
    /\ now = 0
    /\ orphans = 0
    /\ starts = NoStarts
    /\ stops = <<>>
    /\ hist = NoHist

\* A pure function is applied to arguments: the component is not running.
Unmounted == Constructed /\ storage = Null /\ loadPc = "done"

(***************************************************************************)
(* Visit aggregator (src/App.tsx lines 96-114)                             *)
(***************************************************************************)
\* const counts = {}: a record with no key.
NoCounts == [g \in {} |-> 0]

\* counts[g] ?? 0
CountAt(counts, g) == IF g \in DOMAIN counts THEN counts[g] ELSE 0

\* addSessionGrids with one increment per sample instead of one per cell.
addSessionGridsPerSample(counts, coords) ==
    LET idOf(i) == coordToGridId(coords[i].latitude, coords[i].longitude)
        grids == { idOf(i) : i \in 1..Len(coords) }
    IN  [g \in (DOMAIN counts) \cup grids |->
            CountAt(counts, g) + Cardinality({ i \in 1..Len(coords) : idOf(i) = g })]

\* addSessionGrids with counts[g] = 1 instead of the increment.
addSessionGridsOverwrite(counts, coords) ==
    LET grids == { coordToGridId(coords[i].latitude, coords[i].longitude) :
                     i \in 1..Len(coords) }
    IN  [g \in (DOMAIN counts) \cup grids |->
            IF g \in grids THEN 1 ELSE counts[g]]

\* addSessionGrids(coords), lines 98-106: the counts after it has run.
addSessionGrids(counts, coords) ==
    LET grids == { coordToGridId(coords[i].latitude, coords[i].longitude) :
                     i \in 1..Len(coords) }
    IN  [g \in (DOMAIN counts) \cup grids |->
            IF g \in grids THEN CountAt(counts, g) + 1 ELSE counts[g]]

\* for (const session of savedSessions) addSessionGrids(session.coordinates),
\* lines 107-109, over the first n sessions.
RECURSIVE CountSessions(_, _)
CountSessions(sessions, n) ==
    IF n = 0 THEN NoCounts
    ELSE addSessionGrids(CountSessions(sessions, n - 1), sessions[n].coordinates)

\* The value of the gridCounts memo for given savedSessions and locations.
gridCountsOf(sessions, buffer) ==
    LET counts == CountSessions(sessions, Len(sessions))
    IN  IF Len(buffer) > 0 THEN addSessionGrids(counts, buffer) ELSE counts

gridCounts == gridCountsOf(savedSessions, locations)

\* `session_${Date.now()}`
SessionId(t) == <<"s", "e", "s", "s", "i", "o", "n", "_">> \o NumberToString(t)

(***************************************************************************)
(* The aggregator applied.  Its arguments are built the way the recorder   *)
(* builds them: a sample is appended to the buffer, the non-empty buffer   *)
(* is sealed into one more session.                                        *)
(***************************************************************************)
\* The most coordinates the sessions and the buffer hold together.
AggSamples == 3

\* Two coordinates of the default region's cell and one of another cell.
AggCoords ==
    { Coord(35681200, 139767100), Coord(35681300, 139767200),
      Coord(35683000, 139767100) }

RECURSIVE SumLen(_, _)
SumLen(sessions, n) ==
    IF n = 0 THEN 0 ELSE SumLen(sessions, n - 1) + Len(sessions[n].coordinates)

InitAgg ==
    /\ Unmounted
    /\ probe = [op |-> "build", sessions |-> <<>>, buffer |-> <<>>]

AggSample(c) ==
    /\ probe.op = "build"
    /\ SumLen(probe.sessions, Len(probe.sessions)) + Len(probe.buffer) < AggSamples
    /\ probe' = [probe EXCEPT !.buffer = Append(@, c)]
    /\ UNCHANGED <<appVars, envVars>>

AggSeal ==
    /\ probe.op = "build"
    /\ probe.buffer # <<>>
    /\ probe' = [probe EXCEPT
                   !.sessions = Append(@, [id |-> SessionId(Len(@) + 1), startTime |-> 0,
                                           endTime |-> 0, coordinates |-> probe.buffer]),
                   !.buffer = <<>>]
    /\ UNCHANGED <<appVars, envVars>>

\* The memo computed for savedSessions = sessions and locations = buffer.
AggCounts ==
    /\ probe.op = "build"
    /\ probe' = [op |-> "counts", sessions |-> probe.sessions, buffer |-> probe.buffer,
                 counts |-> gridCountsOf(probe.sessions, probe.buffer)]
    /\ UNCHANGED <<appVars, envVars>>

\* The memo computed for the first k sessions (a), for the others (b) and for
\* all of them (a followed by b), no active buffer.
AggConcat(k) ==
    /\ probe.op = "build"
    /\ probe.buffer = <<>>
    /\ LET a == SubSeq(probe.sessions, 1, k)
           b == SubSeq(probe.sessions, k + 1, Len(probe.sessions))
       IN  probe' = [op |-> "concat", sessions |-> probe.sessions, a |-> a, b |-> b,
                     countsA |-> gridCountsOf(a, <<>>),
                     countsB |-> gridCountsOf(b, <<>>),
                     countsAB |-> gridCountsOf(a \o b, <<>>)]
    /\ UNCHANGED <<appVars, envVars>>

NextAgg ==
    \/ \E c \in AggCoords : AggSample(c)
    \/ AggSeal
    \/ AggCounts
    \/ \E k \in 0..Len(probe.sessions) : AggConcat(k)

SpecAgg == InitAgg /\ [][NextAgg]_vars

\* The cell ids of the coordinates the aggregator is given.
AggCells == { coordToGridId(c.latitude, c.longitude) : c \in AggCoords }

\* A coordinate list has a coordinate in cell g.
Touches(coords, g) ==
    \E i \in 1..Len(coords) : coordToGridId(coords[i].latitude, coords[i].longitude) = g

\* The number of distinct sessions, the non-empty buffer counted as one
\* more, with a coordinate in cell g.
Visitors(sessions, buffer, g) ==
    Cardinality({ i \in 1..Len(sessions) : Touches(sessions[i].coordinates, g) })
        + (IF Touches(buffer, g) THEN 1 ELSE 0)

\* C1: gridCounts maps each cell id to exactly the number of distinct
\* sessions (the non-empty active buffer counted as one more) with at least
\* one coordinate in the cell, and a cell no session touches has no entry.
C1_SessionCounts ==
    probe.op = "counts" =>
        /\ DOMAIN probe.counts \subseteq AggCells
        /\ \A g \in AggCells :
              /\ (g \in DOMAIN probe.counts) <=> Visitors(probe.sessions, probe.buffer, g) > 0
              /\ CountAt(probe.counts, g) = Visitors(probe.sessions, probe.buffer, g)

\* A session with two different samples in one cell, the buffer in that cell
\* too, and a cell nobody touches: the cell counts 2, the other has no entry.
C1_Witness ==
    /\ probe.op = "counts"
    /\ Len(probe.sessions) = 1
    /\ Len(probe.sessions[1].coordinates) = 2
    /\ probe.sessions[1].coordinates[1] # probe.sessions[1].coordinates[2]
    /\ Len(probe.buffer) = 1
    /\ \E g \in AggCells :
          /\ DOMAIN probe.counts = {g}
          /\ probe.counts[g] = 2

\* C8: for two lists of sessions A and B and no active buffer, the count of
\* every cell for A followed by B is its count for A plus its count for B,
\* a missing entry taken as 0.
C8_Additivity ==
    probe.op = "concat" =>
        \A g \in AggCells \cup DOMAIN probe.countsAB :
            CountAt(probe.countsAB, g) = CountAt(probe.countsA, g) + CountAt(probe.countsB, g)

\* A and B both visit one cell, A with two sessions: the cell counts 3.
C8_Witness ==
    /\ probe.op = "concat"
    /\ Len(probe.a) = 2
    /\ Len(probe.b) = 1
    /\ \E g \in AggCells :
          /\ CountAt(probe.countsA, g) = 2
          /\ CountAt(probe.countsB, g) = 1
          /\ CountAt(probe.countsAB, g) = 3

(***************************************************************************)
(* Session recorder (src/App.tsx lines 80-94, 116-208)                     *)
(***************************************************************************)
\* The longest buffer: no sample is delivered to a buffer this long, and no
\* more than this many samples follow one initial fix.
MaxLen == 2
\* The largest value of the clock.
MaxTime == 1
\* The most startTracking calls in flight.
MaxInflight == 1
\* The most sessions stopTracking seals in one run when the handlers
\* interleave freely, and when they are called one after the other.
MaxSessions == 1
MaxSeqSessions == 2
\* The most live subscriptions no reference points to.
MaxOrphans == 1

\* The coordinates the location collaborator reports: the default region's
\* centre and a coordinate two cells north of it.
RecCoords == { Coord(35681200, 139767100), Coord(35683000, 139767100) }

\* JSON.stringify(sessions) and JSON.parse(stored): the text of a list of
\* sessions parses to that list, any other text makes JSON.parse throw.
JsonStringify(sessions) == [text |-> "json", value |-> sessions]
ParseThrows(stored) == stored.text # "json"
JsonParse(stored) == stored.value

\* A session an earlier run of the application has stored, sealed before the
\* clock of this run started.
PriorSession ==
    [id |-> SessionId(-1), startTime |-> -1, endTime |-> -1,
     coordinates |-> <<Coord(35681200, 139767100)>>]

\* The text of a stored list cut short: JSON.parse throws on it; its value is
\* what a reader that does not insist on well-formed text would recover.
Malformed == [text |-> "malformed", value |-> <<PriorSession>>]

\* What the storage may hold when the application starts: nothing, the
\* sessions of an earlier run, or text that is not a list of sessions.
InitialStorage == { Null, Some(JsonStringify(<<PriorSession>>)), Some(Malformed) }

\* The state after the component has mounted: the mount effect (lines 92-94)
\* has called loadSavedSessions, which awaits AsyncStorage.getItem.
Init ==
    /\ Constructed
    /\ storage \in InitialStorage
    /\ loadPc = "getItem"
    /\ probe = Null

Range(seq) == { seq[i] : i \in 1..Len(seq) }
RemoveAt(seq, i) == SubSeq(seq, 1, i - 1) \o SubSeq(seq, i + 1, Len(seq))
InFlight == starts.perm + starts.fix + starts.watch
Note(what) == [hist EXCEPT !.last = what]

\* Date.now() has advanced.
Tick ==
    /\ now < MaxTime
    /\ now' = now + 1
    /\ UNCHANGED <<appVars, storage, orphans, starts, stops, loadPc, hist, probe>>

---------------------------------------------------------------------------
\* loadSavedSessions with the parsed value used whether or not the parse
\* succeeded.
LoadResolvedUnchecked ==
    /\ loadPc = "getItem"
    /\ loadPc' = "done"
    /\ IF storage # Null
       THEN savedSessions' = JsonParse(storage[1])
       ELSE UNCHANGED savedSessions
    /\ hist' = IF storage # Null /\ ParseThrows(storage[1])
               THEN Note("load:unparsable") ELSE hist
    /\ UNCHANGED <<isRecording, currentLocation, locations, errorMessage, region,
                   subscriptionRef, startTimeRef, storage, now, orphans, starts,
                   stops, probe>>

\* loadSavedSessions, lines 80-90: getItem has resolved.
LoadResolved ==
    /\ loadPc = "getItem"
    /\ loadPc' = "done"
    /\ IF storage # Null /\ ~ParseThrows(storage[1])
       THEN savedSessions' = JsonParse(storage[1])
       ELSE UNCHANGED savedSessions
    /\ hist' = IF storage # Null /\ ParseThrows(storage[1])
               THEN Note("load:unparsable") ELSE hist
    /\ UNCHANGED <<isRecording, currentLocation, locations, errorMessage, region,
                   subscriptionRef, startTimeRef, storage, now, orphans, starts,
                   stops, probe>>

\* loadSavedSessions: getItem has rejected; the catch logs it (line 88).
LoadFailed ==
    /\ loadPc = "getItem"
    /\ loadPc' = "done"
    /\ hist' = Note("load:failed")
    /\ UNCHANGED <<appVars, storage, now, orphans, starts, stops, probe>>

---------------------------------------------------------------------------
\* startTracking with the guard of lines 150-152 left out.
StartInvokeUnguarded ==
    /\ InFlight < MaxInflight
    /\ errorMessage' = Null
    /\ starts' = [starts EXCEPT !.perm = @ + 1]
    /\ UNCHANGED <<isRecording, currentLocation, locations, region, savedSessions,
                   subscriptionRef, startTimeRef, storage, now, orphans, stops,
                   loadPc, hist, probe>>

\* startTracking, lines 149-155: up to the await of the permission request.
StartInvoke ==
    /\ IF isRecording
       THEN /\ hist' = Note("start:already")
            /\ UNCHANGED <<appVars, starts>>
       ELSE /\ InFlight < MaxInflight
            /\ errorMessage' = Null
            /\ starts' = [starts EXCEPT !.perm = @ + 1]
            /\ UNCHANGED hist
            /\ UNCHANGED <<isRecording, currentLocation, locations, region,
                           savedSessions, subscriptionRef, startTimeRef>>
    /\ UNCHANGED <<storage, now, orphans, stops, loadPc, probe>>

\* Lines 156-160 with the error message left out.
StartPermDeniedSilent ==
    /\ starts.perm > 0
    /\ starts' = [starts EXCEPT !.perm = @ - 1]
    /\ isRecording' = FALSE
    /\ hist' = Note("start:denied")
    /\ UNCHANGED <<currentLocation, locations, errorMessage, region, savedSessions,
                   subscriptionRef, startTimeRef, storage, now, orphans, stops,
                   loadPc, probe>>

\* Lines 156-160: the permission is not granted.
StartPermDenied ==
    /\ starts.perm > 0
    /\ starts' = [starts EXCEPT !.perm = @ - 1]
    /\ errorMessage' = Some("permission")
    /\ isRecording' = FALSE
    /\ hist' = Note("start:denied")
    /\ UNCHANGED <<currentLocation, locations, region, savedSessions, subscriptionRef,
                   startTimeRef, storage, now, orphans, stops, loadPc, probe>>

\* Lines 156-164: the permission is granted; getCurrentPositionAsync is awaited.
StartPermGranted ==
    /\ starts.perm > 0
    /\ starts' = [starts EXCEPT !.perm = @ - 1, !.fix = @ + 1]
    /\ UNCHANGED <<appVars, storage, now, orphans, stops, loadPc, hist, probe>>

\* Line 162: getCurrentPositionAsync rejects.  No try encloses the await: the
\* call ends there, the rejection unhandled.
StartFixFailed ==
    /\ starts.fix > 0
    /\ starts' = [starts EXCEPT !.fix = @ - 1]
    /\ hist' = Note("start:nofix")
    /\ UNCHANGED <<appVars, storage, now, orphans, stops, loadPc, probe>>

\* Lines 165-178 with the initial fix left out of the buffer.
StartFixResolvedNoFix(c) ==
    /\ starts.fix > 0
    /\ starts' = [starts EXCEPT !.fix = @ - 1, !.watch = @ + 1]
    /\ currentLocation' = Some(c)
    /\ region' = [latitude |-> c.latitude, longitude |-> c.longitude,
                  latitudeDelta |-> 5000, longitudeDelta |-> 5000]
    /\ locations' = <<>>
    /\ startTimeRef' = Some(now)
    /\ isRecording' = TRUE
    /\ hist' = [hist EXCEPT !.fed = <<c>>]
    /\ UNCHANGED <<errorMessage, savedSessions, subscriptionRef, storage, now,
                   orphans, stops, loadPc, probe>>

\* Lines 165-178: the initial fix c has arrived; watchPositionAsync is awaited.
StartFixResolved(c) ==
    /\ starts.fix > 0
    /\ starts' = [starts EXCEPT !.fix = @ - 1, !.watch = @ + 1]
    /\ currentLocation' = Some(c)
    /\ region' = [latitude |-> c.latitude, longitude |-> c.longitude,
                  latitudeDelta |-> 5000, longitudeDelta |-> 5000]
    /\ locations' = <<c>>
    /\ startTimeRef' = Some(now)
    /\ isRecording' = TRUE
    /\ hist' = [hist EXCEPT !.fed = <<c>>]
    /\ UNCHANGED <<errorMessage, savedSessions, subscriptionRef, storage, now,
                   orphans, stops, loadPc, probe>>

\* Line 178: watchPositionAsync rejects.  No try encloses the await.
StartWatchFailed ==
    /\ starts.watch > 0
    /\ starts' = [starts EXCEPT !.watch = @ - 1]
    /\ hist' = Note("start:nowatch")
    /\ UNCHANGED <<appVars, storage, now, orphans, stops, loadPc, probe>>

\* Line 178: the subscription is set up and stored in subscriptionRef; a
\* subscription the reference held before stays live, unreferenced.
StartWatchResolved ==
    /\ starts.watch > 0
    /\ subscriptionRef # Null => orphans < MaxOrphans
    /\ starts' = [starts EXCEPT !.watch = @ - 1]
    /\ orphans' = IF subscriptionRef # Null THEN orphans + 1 ELSE orphans
    /\ subscriptionRef' = Some("subscription")
    /\ UNCHANGED <<isRecording, currentLocation, locations, errorMessage, region,
                   savedSessions, startTimeRef, storage, now, stops, loadPc, hist,
                   probe>>

\* The callback of lines 184-197: a live subscription delivers the sample c.
Sample(c) ==
    /\ subscriptionRef # Null \/ orphans > 0
    /\ Len(locations) < MaxLen
    /\ Len(hist.fed) <= MaxLen
    /\ currentLocation' = Some(c)
    /\ locations' = Append(locations, c)
    /\ hist' = [hist EXCEPT !.fed = IF isRecording THEN Append(@, c) ELSE @]
    /\ UNCHANGED <<isRecording, errorMessage, region, savedSessions, subscriptionRef,
                   startTimeRef, storage, now, orphans, starts, stops, loadPc, probe>>

---------------------------------------------------------------------------
\* The session of lines 124-129.
NewSession ==
    [id |-> SessionId(now), startTime |-> startTimeRef[1], endTime |-> now,
     coordinates |-> locations]

\* The condition of line 123.
HasRecording == Len(locations) > 0 /\ startTimeRef # Null

\* stopTracking may build one more session: fewer than cap have been built.
SealAllowed(cap) == HasRecording => Len(hist.sealed) < cap

\* stopTracking with the condition of line 123 left out: a session is built
\* whatever the buffer and the start time are.
StopInvokeAlways ==
    /\ subscriptionRef' = Null
    /\ isRecording' = FALSE
    /\ Len(hist.sealed) < MaxSessions
    /\ LET session == [id |-> SessionId(now),
                       startTime |-> IF startTimeRef = Null THEN 0 ELSE startTimeRef[1],
                       endTime |-> now, coordinates |-> locations]
       IN  /\ stops' = Append(stops, [pc |-> "getItem", session |-> session,
                                      sessions |-> <<>>])
           /\ hist' = [hist EXCEPT !.fed = <<>>, !.sealed = Append(@, session)]
    /\ startTimeRef' = Null
    /\ UNCHANGED <<locations, currentLocation, errorMessage, region, savedSessions,
                   storage, now, orphans, starts, loadPc, probe>>

\* stopTracking, lines 116-133: up to the await of AsyncStorage.getItem, or to
\* the end (lines 145-146) when nothing is sealed.
StopInvoke ==
    /\ subscriptionRef' = Null
    /\ isRecording' = FALSE
    /\ IF HasRecording
       THEN /\ stops' = Append(stops, [pc |-> "getItem", session |-> NewSession,
                                       sessions |-> <<>>])
            /\ startTimeRef' = Null
            /\ hist' = [hist EXCEPT
                          !.fed = <<>>,
                          !.sealed = Append(@, NewSession)]
            /\ UNCHANGED <<locations, currentLocation>>
       ELSE /\ locations' = <<>>
            /\ currentLocation' = Null
            /\ hist' = [hist EXCEPT
                          !.fed = <<>>,
                          !.last = IF isRecording THEN "stop:unsealed"
                                   ELSE "stop:nothing"]
            /\ UNCHANGED <<startTimeRef, stops>>
    /\ UNCHANGED <<errorMessage, region, savedSessions, storage, now, orphans,
                   starts, loadPc, probe>>

\* Lines 133-136 of the i-th call in flight: getItem has resolved, the stored
\* list is parsed, the session pushed, setItem awaited.  A parse that throws
\* goes to the catch (line 141) and on to lines 145-146.
StopGetItemResolved(i) ==
    /\ stops[i].pc = "getItem"
    /\ IF storage # Null /\ ParseThrows(storage[1])
       THEN /\ stops' = RemoveAt(stops, i)
            /\ locations' = <<>>
            /\ currentLocation' = Null
            /\ hist' = Note("stop:unparsable")
       ELSE /\ stops' = [stops EXCEPT ![i] =
                           [pc |-> "setItem", session |-> @.session,
                            sessions |-> Append(IF storage = Null THEN <<>>
                                                ELSE JsonParse(storage[1]), @.session)]]
            /\ UNCHANGED hist
            /\ UNCHANGED <<locations, currentLocation>>
    /\ UNCHANGED <<isRecording, errorMessage, region, savedSessions, subscriptionRef,
                   startTimeRef, storage, now, orphans, starts, loadPc, probe>>

\* Line 133: getItem has rejected; catch, then lines 145-146.
StopGetItemFailed(i) ==
    /\ stops[i].pc = "getItem"
    /\ stops' = RemoveAt(stops, i)
    /\ locations' = <<>>
    /\ currentLocation' = Null
    /\ hist' = Note("stop:readfailed")
    /\ UNCHANGED <<isRecording, errorMessage, region, savedSessions, subscriptionRef,
                   startTimeRef, storage, now, orphans, starts, loadPc, probe>>

\* Lines 136-146: setItem has resolved: the list is stored and becomes
\* savedSessions; the buffer is cleared.
StopSetItemResolved(i) ==
    /\ stops[i].pc = "setItem"
    /\ stops' = RemoveAt(stops, i)
    /\ storage' = Some(JsonStringify(stops[i].sessions))
    /\ savedSessions' = stops[i].sessions
    /\ locations' = <<>>
    /\ currentLocation' = Null
    /\ UNCHANGED <<isRecording, errorMessage, region, subscriptionRef, startTimeRef,
                   now, orphans, starts, loadPc, hist, probe>>

\* Lines 136-146: setItem has rejected; catch (line 141), then lines 145-146.
StopSetItemFailed(i) ==
    /\ stops[i].pc = "setItem"
    /\ stops' = RemoveAt(stops, i)
    /\ locations' = <<>>
    /\ currentLocation' = Null
    /\ hist' = Note("stop:writefailed")
    /\ UNCHANGED <<isRecording, errorMessage, region, savedSessions, subscriptionRef,
                   startTimeRef, storage, now, orphans, starts, loadPc, probe>>

---------------------------------------------------------------------------
Next ==
    \/ Tick
    \/ LoadResolved
    \/ LoadFailed
    \/ StartInvoke
    \/ StartPermDenied
    \/ StartPermGranted
    \/ StartFixFailed
    \/ \E c \in RecCoords : StartFixResolved(c)
    \/ StartWatchFailed
    \/ StartWatchResolved
    \/ \E c \in RecCoords : Sample(c)
    \/ SealAllowed(MaxSessions) /\ StopInvoke
    \/ \E i \in 1..Len(stops) : StopGetItemResolved(i)
    \/ \E i \in 1..Len(stops) : StopGetItemFailed(i)
    \/ \E i \in 1..Len(stops) : StopSetItemResolved(i)
    \/ \E i \in 1..Len(stops) : StopSetItemFailed(i)

\* Every interleaving of the handlers and their continuations.
Spec == Init /\ [][Next]_vars

\* No startTracking call and no stopTracking call is in flight.
Quiet == starts = NoStarts /\ stops = <<>>

NextSeq ==
    \/ Tick
    \/ LoadResolved
    \/ LoadFailed
    \/ Quiet /\ StartInvoke
    \/ StartPermDenied
    \/ StartPermGranted
    \/ StartFixFailed
    \/ \E c \in RecCoords : StartFixResolved(c)
    \/ StartWatchFailed
    \/ StartWatchResolved
    \/ \E c \in RecCoords : Sample(c)
    \/ Quiet /\ SealAllowed(MaxSeqSessions) /\ StopInvoke
    \/ \E i \in 1..Len(stops) : StopGetItemResolved(i)
    \/ \E i \in 1..Len(stops) : StopGetItemFailed(i)
    \/ \E i \in 1..Len(stops) : StopSetItemResolved(i)
    \/ \E i \in 1..Len(stops) : StopSetItemFailed(i)

\* The handlers called one after the other: startTracking and stopTracking
\* are called only when no earlier call of either is still in flight.
SpecSeq == Init /\ [][NextSeq]_vars

---------------------------------------------------------------------------
C3_StartWhileRecording ==
    [][ (StartInvoke /\ isRecording) =>
            UNCHANGED <<appVars, storage, now, orphans, starts, stops, loadPc>>
      ]_vars

\* startTracking has returned at its guard and the recording goes on.
C3_Witness ==
    /\ hist.last = "start:already"
    /\ isRecording
    /\ Len(locations) = 2
    /\ startTimeRef # Null
    /\ subscriptionRef # Null

\* C4: a stopTracking call made when the buffer is empty or the start time
\* is null builds no session, starts no storage write, and leaves the storage
\* and the saved sessions as they are.
C4_StopWhileIdle ==
    [][ (StopInvoke /\ (locations = <<>> \/ startTimeRef = Null)) =>
            /\ hist.sealed' = hist.sealed
            /\ stops' = stops
            /\ storage' = storage
            /\ savedSessions' = savedSessions
      ]_vars

\* stopTracking has been called with nothing recorded and has ended.
C4_Witness ==
    /\ hist.last = "stop:nothing"
    /\ ~isRecording
    /\ locations = <<>>
    /\ hist.sealed = <<>>
    /\ stops = <<>>

\* C5: when the storage write of stopTracking fails, the session the call
\* built is in savedSessions afterwards.
C5_WriteFailureSurfaced ==
    [][ \A i \in 1..Len(stops) :
            StopSetItemFailed(i) => stops[i].session \in Range(savedSessions')
      ]_vars

\* C6: when the initial fix or the set-up of the subscription fails,
\* startTracking ends as it does for a denied permission: an error message is
\* set, isRecording is false, the start time is null and the buffer is empty.
C6_StartFailureAborts ==
    [][ (StartFixFailed \/ StartWatchFailed) =>
            /\ errorMessage' # Null
            /\ ~isRecording'
            /\ startTimeRef' = Null
            /\ locations' = <<>>
      ]_vars

\* C7: when the permission is denied, startTracking sets an error message
\* and isRecording is false; the call puts nothing in the buffer, sets no start
\* time, requests no fix and creates no subscription; the guard of a later
\* startTracking call is passed.
C7_PermissionDenied ==
    [][ StartPermDenied =>
            /\ errorMessage' # Null
            /\ ~isRecording'
            /\ UNCHANGED <<locations, startTimeRef, subscriptionRef, orphans,
                           currentLocation, savedSessions, storage, stops>>
            /\ starts'.fix = starts.fix
            /\ starts'.watch = starts.watch
      ]_vars

\* After a denied permission a later startTracking call has been granted the
\* permission and records: the fix is buffered, the subscription is live.
C7_Witness ==
    /\ hist.last = "start:denied"
    /\ isRecording
    /\ errorMessage = Null
    /\ locations # <<>>
    /\ startTimeRef # Null
    /\ subscriptionRef # Null


(***************************************************************************)
(* The grid indexer applied: a coordinate is indexed, the cell's corners   *)
(* are rebuilt, a point inside the corners is indexed again.               *)
(***************************************************************************)
\* The sample points per cell edge.
GridSteps == 4

\* Coordinates whose cells are rebuilt: the default region's centre, and a
\* coordinate in each of the other three quadrants and at the origin.
ProbeCoords ==
    { Coord(35681200, 139767100), Coord(40712800, -74006000),
      Coord(-22900000, -43200000), Coord(-33868800, 151209300), Coord(100, 100) }

InitGrid ==
    /\ Unmounted
    /\ probe \in { [op |-> "coord", coord |-> c, fi |-> i, fj |-> j] :
                     c \in ProbeCoords, i \in 0..(GridSteps - 1), j \in 0..(GridSteps - 1) }

\* gridCounts keys the coordinate's cell (line 101).
GridIndex ==
    /\ probe.op = "coord"
    /\ probe' = [op |-> "cell", fi |-> probe.fi, fj |-> probe.fj,
                 gridId |-> coordToGridId(probe.coord.latitude, probe.coord.longitude)]
    /\ UNCHANGED <<appVars, envVars>>

\* The polygon of the cell (line 229), and the point at (fi, fj)/GridSteps
\* of the way from its minimum corner to its maximum corner.
GridCorners ==
    /\ probe.op = "cell"
    /\ LET ring == gridIdToCorners(probe.gridId)
           sw   == ring[1]
           ne   == ring[3]
       IN  probe' = [op |-> "point", gridId |-> probe.gridId, corners |-> ring,
                     point |-> Coord(
                       sw.latitude + ((ne.latitude - sw.latitude) * probe.fi) \div GridSteps,
                       sw.longitude + ((ne.longitude - sw.longitude) * probe.fj) \div GridSteps)]
    /\ UNCHANGED <<appVars, envVars>>

GridLocate ==
    /\ probe.op = "point"
    /\ probe' = [op |-> "located", gridId |-> probe.gridId, corners |-> probe.corners,
                 point |-> probe.point,
                 found |-> coordToGridId(probe.point.latitude, probe.point.longitude)]
    /\ UNCHANGED <<appVars, envVars>>

NextGrid == GridIndex \/ GridCorners \/ GridLocate

SpecGrid == InitGrid /\ [][NextGrid]_vars

\* A coordinate inside the ring's bounds, minimum edges included, maximum
\* edges excluded.
InsideBounds(c, ring) ==
    /\ ring[1].latitude <= c.latitude /\ c.latitude < ring[3].latitude
    /\ ring[1].longitude <= c.longitude /\ c.longitude < ring[3].longitude

(***************************************************************************)
(* The grid indexer applied to two coordinates.                            *)
(***************************************************************************)
\* Coordinates on both sides of the cell edges next to the origin (a cell is
\* 898.3 micro-degrees high), and far from it in all four quadrants.
IndexCoords ==
    { Coord(0, 0), Coord(-1, -1), Coord(1, -1), Coord(-1, 1),
      Coord(898, 898), Coord(899, 899), Coord(-898, -898), Coord(-899, -899),
      Coord(35681200, 139767100), Coord(35681300, 139767200),
      Coord(40712800, -74006000), Coord(-22900000, -43200000) }

InitIndex ==
    /\ Unmounted
    /\ probe \in { [op |-> "pair", a |-> a, b |-> b] : a \in IndexCoords, b \in IndexCoords }

IndexPair ==
    /\ probe.op = "pair"
    /\ probe' = [op |-> "ids", a |-> probe.a, b |-> probe.b,
                 idA |-> coordToGridId(probe.a.latitude, probe.a.longitude),
                 idB |-> coordToGridId(probe.b.latitude, probe.b.longitude)]
    /\ UNCHANGED <<appVars, envVars>>

NextIndex == IndexPair

SpecIndex == InitIndex /\ [][NextIndex]_vars

\* The projected position of c lies in the half-open square
\* [row*100 m, (row+1)*100 m) x [col*100 m, (col+1)*100 m).
InSquare(c, row, col) ==
    LET S == GRID_SIZE_METERS * MeterScale
        n == latMeters(c.latitude)
        e == lonMeters(c.latitude, c.longitude)
    IN  /\ row * S <= n /\ n < (row + 1) * S
        /\ col * S <= e /\ e < (col + 1) * S

\* The (row, col) a cell id names.
RowOf(gridId) == StringToNumber(SplitUnderscore(gridId)[1])
ColOf(gridId) == StringToNumber(SplitUnderscore(gridId)[2])

\* C9: every coordinate inside the bounds gridIdToCorners returns for a cell
\* id (minimum edges included, maximum edges excluded) maps back through
\* coordToGridId to that id.
C9_Containment ==
    (probe.op = "located" /\ InsideBounds(probe.point, probe.corners))
        => probe.found = probe.gridId

\* C10: coordToGridId gives a coordinate the cell whose half-open square
\* holds its projected position, and two coordinates get the same id exactly
\* when the second lies in the square of the first (negative positions too).
C10_FloorSquares ==
    probe.op = "ids" =>
        /\ InSquare(probe.a, RowOf(probe.idA), ColOf(probe.idA))
        /\ (probe.idA = probe.idB)
              <=> InSquare(probe.b, RowOf(probe.idA), ColOf(probe.idA))

\* Two distinct coordinates of negative position share a cell, indexed.
C10_Witness ==
    /\ probe.op = "ids"
    /\ probe.a # probe.b
    /\ probe.idA = probe.idB
    /\ latMeters(probe.a.latitude) < 0
    /\ lonMeters(probe.a.latitude, probe.a.longitude) < 0

NextRace ==
    \/ LoadResolved
    \/ StartInvoke
    \/ StartPermGranted
    \/ \E c \in RecCoords : StartFixResolved(c)
    \/ StartWatchResolved
    \/ \E c \in RecCoords : Sample(c)
    \/ SealAllowed(MaxSeqSessions) /\ StopInvoke
    \/ \E i \in 1..Len(stops) : StopGetItemResolved(i)
    \/ \E i \in 1..Len(stops) : StopSetItemResolved(i)

\* Every interleaving of the handlers and their continuations when the
\* collaborators grant and answer every request: no permission is denied and
\* no request to the location service or to the storage is rejected.  The
\* clock stands still: no step of the handlers depends on its value.
SpecRace == Init /\ [][NextRace]_vars

---------------------------------------------------------------------------
\* The list of sessions the storage holds; empty when it holds nothing or
\* text that does not parse.
StoredSessions ==
    IF storage = Null \/ ParseThrows(storage[1]) THEN <<>> ELSE JsonParse(storage[1])

\* No two sessions of the list carry the same id.
UniqueIds(sessions) ==
    \A i, j \in 1..Len(sessions) : sessions[i].id = sessions[j].id => i = j

\* C12: no two sessions of the stored list, and no two sessions of
\* savedSessions, carry the same id.
C12_UniqueIds == UniqueIds(StoredSessions) /\ UniqueIds(savedSessions)

\* C13: when the load's getItem rejects or the stored text does not parse,
\* loadSavedSessions ends without touching the component's state; if no
\* stopTracking call has built a session before, savedSessions is empty
\* afterwards and gridCounts is the memo of the buffer alone.
C13_LoadFailure ==
    [][ (LoadFailed \/ (LoadResolved /\ storage # Null /\ ParseThrows(storage[1]))) =>
            /\ loadPc' = "done"
            /\ UNCHANGED <<appVars, storage, starts, stops>>
            /\ hist.sealed = <<>> =>
                  /\ savedSessions' = <<>>
                  /\ gridCountsOf(savedSessions', locations') = gridCountsOf(<<>>, locations')
      ]_vars

\* The stored text did not parse; a recording of two coordinates is in the
\* buffer and gridCounts holds its cells only.
C13_Witness ==
    /\ hist.last = "load:unparsable"
    /\ loadPc = "done"
    /\ storage = Some(Malformed)
    /\ savedSessions = <<>>
    /\ Len(locations) = 2
    /\ gridCounts = gridCountsOf(<<>>, locations)
    /\ DOMAIN gridCounts # {}

\* C14: the recorder state and the buffer agree: while isRecording the
\* buffer is not empty, and while not recording with no startTracking or
\* stopTracking call in flight the buffer is empty (so that no sample has
\* been appended outside a recording).
C14_StateBufferAgree ==
    /\ isRecording => locations # <<>>
    /\ (~isRecording /\ Quiet) => locations = <<>>

\* The list a is the beginning of the list b.
IsPrefix(a, b) == Len(a) <= Len(b) /\ SubSeq(b, 1, Len(a)) = a

\* C15: the stored list only grows at its end: every step leaves the list
\* stored before as the beginning of the list stored after, and a stopTracking
\* call whose write succeeds leaves the list stored before with the call's
\* session appended.
C15_AppendOnly ==
    [][ /\ IsPrefix(StoredSessions, StoredSessions')
        /\ \A i \in 1..Len(stops) :
              StopSetItemResolved(i) =>
                  StoredSessions' = Append(StoredSessions, stops[i].session)
      ]_vars

\* The storage answers every request: a getItem and a setItem that
\* stopTracking awaits is eventually resolved or rejected.
StorageAnswers ==
    /\ WF_vars(\E i \in 1..Len(stops) : StopGetItemResolved(i) \/ StopGetItemFailed(i))
    /\ WF_vars(\E i \in 1..Len(stops) : StopSetItemResolved(i) \/ StopSetItemFailed(i))

\* Every interleaving of the handlers, the storage answering every request.
SpecLive == Init /\ [][Next]_vars /\ StorageAnswers

\* A stopTracking call has built a session and awaits the storage, or the
\* last call that left the main line was a stopTracking call made while
\* isRecording that found nothing to seal.
StopCalled == stops # <<>> \/ hist.last = "stop:unsealed"

\* The recorder is idle with an empty buffer and no start time.
IdleAndEmpty == ~isRecording /\ locations = <<>> /\ startTimeRef = Null

\* C16: after a stopTracking call that builds a session or is made while
\* isRecording, whether the storage resolves or rejects its requests, the
\* recorder is eventually idle with an empty buffer and no start time, unless
\* a new recording has begun since the call.
C16_StopEndsIdle == StopCalled ~> (IdleAndEmpty \/ hist.fed # <<>>)

\* The subscriptions that deliver samples: the one subscriptionRef holds
\* and those no reference points to.
LiveSubscriptions == (IF subscriptionRef # Null THEN 1 ELSE 0) + orphans

\* C17: at most one subscription is live, and none is live when the
\* recorder is idle with no startTracking or stopTracking call in flight (every
\* stopTracking call has completed and no startTracking call is under way).
C17_OneSubscription ==
    /\ LiveSubscriptions <= 1
    /\ (~isRecording /\ Quiet) => LiveSubscriptions = 0

\* The step ends the i-th stopTracking call in flight: lines 145-146 run.
StopCompletes(i) ==
    \/ StopGetItemResolved(i) /\ storage # Null /\ ParseThrows(storage[1])
    \/ StopGetItemFailed(i)
    \/ StopSetItemResolved(i)
    \/ StopSetItemFailed(i)

\* C18: when a stopTracking call ends while a recording begun after that
\* call is in progress, the buffer of the recording is left as it is; and the
\* session a stopTracking call builds while isRecording holds the initial
\* fix of the recording and all its samples.
C18_LaterRecordingKept ==
    [][ /\ \A i \in 1..Len(stops) :
              (StopCompletes(i) /\ isRecording /\ hist.fed # <<>>) =>
                  locations' = locations
        /\ (StopInvoke /\ isRecording /\ hist.sealed' # hist.sealed) =>
              hist.sealed'[Len(hist.sealed')].coordinates = hist.fed
      ]_vars

\* The buffer still holds the recording the i-th stopTracking call in
\* flight has sealed: no recording has begun since, nothing was added.
BufferHolds(i) == hist.fed = <<>> /\ locations = stops[i].session.coordinates

\* The cells of a list of coordinates.
CellsOf(coords) == { coordToGridId(c.latitude, c.longitude) : c \in Range(coords) }

\* C19: a recording is counted once while and after it is stopped: no
\* session of a stopTracking call in flight is in savedSessions while the
\* buffer still holds its recording, and when such a call ends, savedSessions
\* agreeing with the storage, the count of every cell of the recording is the
\* same after the step as before.
C19_CountedOnce ==
    /\ [](\A i \in 1..Len(stops) :
             ~(BufferHolds(i) /\ stops[i].session \in Range(savedSessions)))
    /\ [][ \A i \in 1..Len(stops) :
              (StopCompletes(i) /\ BufferHolds(i) /\ savedSessions = StoredSessions) =>
                  \A g \in CellsOf(stops[i].session.coordinates) :
                      CountAt(gridCountsOf(savedSessions', locations'), g)
                          = CountAt(gridCounts, g)
         ]_vars

(***************************************************************************)
(* The colour of a cell (src/App.tsx lines 57-62) and the polygons the map *)
(* draws for the entries of gridCounts (lines 226-234).                    *)
(***************************************************************************)
\* The largest count classified.
MaxCount == 100
\* The most saved sessions of a rendered map.
MaxRendered == 12

\* getColorForCount with the bounds exclusive.
getColorForCountExclusive(count) ==
    IF count > 10 THEN "#FF0000"
    ELSE IF count > 5 THEN "#FFA500"
    ELSE IF count > 2 THEN "#FFD700"
    ELSE "#90EE90"

\* getColorForCount, lines 57-62.
getColorForCount(count) ==
    IF count >= 10 THEN "#FF0000"
    ELSE IF count >= 5 THEN "#FFA500"
    ELSE IF count >= 2 THEN "#FFD700"
    ELSE "#90EE90"

\* The fillColor of the polygon of each entry of the memo, lines 226-234.
PolygonFills(counts) == [g \in DOMAIN counts |-> getColorForCount(counts[g])]

\* k saved sessions: each passes the default region's centre, every other one
\* also a coordinate two cells north of it.
RenderedSessions(k) ==
    [i \in 1..k |->
        [id |-> SessionId(i), startTime |-> 0, endTime |-> 0,
         coordinates |-> IF i % 2 = 1
                         THEN <<Coord(35681200, 139767100), Coord(35683000, 139767100)>>
                         ELSE <<Coord(35681200, 139767100)>>]]

InitColor ==
    /\ Unmounted
    /\ probe \in { [op |-> "count", count |-> k] : k \in 0..MaxCount }

\* getColorForCount applied to the count.
ColorCount ==
    /\ probe.op = "count"
    /\ probe' = [op |-> "color", count |-> probe.count,
                 color |-> getColorForCount(probe.count)]
    /\ UNCHANGED <<appVars, envVars>>

\* The map drawn for as many saved sessions as the count and the buffer.
ColorRender(buffer) ==
    /\ probe.op = "count"
    /\ probe.count <= MaxRendered
    /\ LET counts == gridCountsOf(RenderedSessions(probe.count), buffer)
       IN  probe' = [op |-> "render", count |-> probe.count, buffer |-> buffer,
                     counts |-> counts, fills |-> PolygonFills(counts)]
    /\ UNCHANGED <<appVars, envVars>>

NextColor ==
    \/ ColorCount
    \/ \E buffer \in { <<>>, <<Coord(35683000, 139767100)>>,
                       <<Coord(35690000, 139767100)>> } : ColorRender(buffer)

SpecColor == InitColor /\ [][NextColor]_vars

\* The tier of the thresholds: Severe from 10, High 5..9, Medium 2..4, Low 1.
TierColor(count) ==
    CASE count >= 10 -> "#FF0000"
      [] count \in 5..9 -> "#FFA500"
      [] count \in 2..4 -> "#FFD700"
      [] count = 1 -> "#90EE90"

\* C11: every count >= 1 gets the colour of its tier (Severe from 10, High
\* for 5..9, Medium for 2..4, Low for 1), and every entry of gridCounts the
\* map draws has a count >= 1 and the colour of its tier.
C11_ColourTiers ==
    /\ (probe.op = "color" /\ probe.count >= 1) => probe.color = TierColor(probe.count)
    /\ probe.op = "render" =>
          \A g \in DOMAIN probe.counts :
              /\ probe.counts[g] >= 1
              /\ probe.fills[g] = TierColor(probe.counts[g])

\* A map of ten saved sessions and a buffer: one cell is Severe with count
\* 10, the cell north of it High with count 6.
C11_Witness ==
    /\ probe.op = "render"
    /\ \E g, h \in DOMAIN probe.counts :
          /\ probe.counts[g] = 10 /\ probe.fills[g] = "#FF0000"
          /\ probe.counts[h] = 6 /\ probe.fills[h] = "#FFA500"


=============================================================================
